---- MODULE Spec2Model ----
(***************************************************************************)
(* Model of build-runner: the build daemon (src/src/server.rs), the run    *)
(* client with its TruncatingBuffer (src/src/client.rs) and the command    *)
(* line glue (src/src/main.rs).                                            *)
(*                                                                         *)
(* Two specifications share the variables:                                 *)
(*   Spec       - the server: run(), one handle_connection task per        *)
(*                accepted connection, the build processes and their       *)
(*                pipes, and the clients as a source of connections.       *)
(*   ClientSpec - the run client: run_build() fed an arbitrary stream of   *)
(*                Responses, with the TruncatingBuffer it drives.          *)
(*   FairSpec   - Spec with weak fairness of the server's own steps.       *)
(***************************************************************************)
EXTENDS Integers, Sequences, FiniteSets, TLC

(***************************************************************************)
(* Bounds of the model.                                                    *)
(***************************************************************************)
\* the largest --max-lines the run client is started with
MaxN == 5
\* the largest number of Output messages fed to one run client
MaxL == 7

\* the number of connections clients make to the server
MaxConns == 2
\* the number of lines all build processes together write
MaxLines == 3
\* the number of lines a pipe between a build process and the server holds
PipeCap == 2

VARIABLES
    \* ---- server (server.rs run) ----
    initScript,   \* Option<PathBuf>: <<>> or <<path>>
    serverPc,     \* where run() is
    initialized,  \* AtomicBool initialized
    running,      \* AtomicBool running
    listener,     \* the TcpListener is bound and not yet dropped
    conn,         \* per connection: the client's side, the handler task, its child
    \* ---- run client (client.rs run_build) ----
    cli,        \* the command line: [max_lines, no_truncate]
    cpc,        \* "idle" | "recv" (in the read loop) | "exited"
    buf,        \* the TruncatingBuffer
    exit_code,  \* run_build's local exit_code
    printed,    \* everything written to stdout/stderr, in order
    fed,        \* history: the OutputLines pushed into the buffer
    term,       \* history: what ended the read loop
    finished,   \* history: buffer.finish() was called
    exitStatus  \* the code the client process exited with, or NoExit

serverVars == <<initScript, serverPc, initialized, running, listener, conn>>

clientVars == <<cli, cpc, buf, exit_code, printed, fed, term, finished, exitStatus>>

vars == <<serverVars, clientVars>>

\* exitStatus is an Option: <<>> while the client runs, <<code>> once it has exited
NoExit == <<>>

(***************************************************************************)
(* client.rs: OutputLine and TruncatingBuffer.                             *)
(***************************************************************************)
\* An OutputLine is [content, is_stderr]. The text of a line is modelled by the
\* position at which the line arrived, so that any two lines differ.
OutputLineAt(k, is_stderr) == [content |-> k, is_stderr |-> is_stderr]

\* what the exit code of a build can be on the wire (i32)
ExitCodes == {0, 1, 3, -1}

\* One write to the terminal. kind "line" is print_line, "blank" and "marker"
\* are the three eprintln! of finish, "error" and "failed" are run_build's.
PrintEvent(stream, kind, content, n) ==
    [stream |-> stream, kind |-> kind, content |-> content, n |-> n]

\* print_line: stderr lines go to stderr, the others to stdout
print_line(line) ==
    PrintEvent(IF line.is_stderr THEN "stderr" ELSE "stdout", "line", line.content, 0)

\* the three eprintln! that make the truncation marker
MarkerBlock(skipped) ==
    << PrintEvent("stderr", "blank", 0, 0),
       PrintEvent("stderr", "marker", 0, skipped),
       PrintEvent("stderr", "blank", 0, 0) >>

RECURSIVE PrintAll(_)
PrintAll(lines) ==
    IF lines = <<>> THEN <<>>
    ELSE <<print_line(Head(lines))>> \o PrintAll(Tail(lines))

\* mutant: the head takes the larger half
HeadLimitCeil(max_lines) == (max_lines + 1) \div 2

\* head_limit = max_lines / 2 (usize division)
HeadLimit(max_lines) == max_lines \div 2

\* tail_limit = max_lines - head_limit
TailLimit(max_lines) == max_lines - HeadLimit(max_lines)

\* TruncatingBuffer::new
BufNew(max_lines) ==
    [ max_lines   |-> max_lines,
      head        |-> <<>>,
      tail        |-> <<>>,
      total_count |-> 0,
      head_limit  |-> HeadLimit(max_lines),
      tail_limit  |-> TailLimit(max_lines) ]

\* mutant: the max_lines == 0 early return is missing
BufPushNoBypass(b, line) ==
    LET b1 == [b EXCEPT !.total_count = @ + 1] IN
    IF Len(b1.head) < b1.head_limit
    THEN [buf |-> [b1 EXCEPT !.head = Append(@, line)], out |-> <<print_line(line)>>]
    ELSE LET t == IF Len(b1.tail) >= b1.tail_limit /\ b1.tail # <<>>
                  THEN Tail(b1.tail) ELSE b1.tail
         IN [buf |-> [b1 EXCEPT !.tail = Append(t, line)], out |-> <<>>]

\* mutant: a full ring keeps what it has and drops the new line
BufPushKeepOldest(b, line) ==
    LET b1 == [b EXCEPT !.total_count = @ + 1] IN
    IF b1.max_lines = 0
    THEN [buf |-> b1, out |-> <<print_line(line)>>]
    ELSE IF Len(b1.head) < b1.head_limit
    THEN [buf |-> [b1 EXCEPT !.head = Append(@, line)], out |-> <<print_line(line)>>]
    ELSE IF Len(b1.tail) >= b1.tail_limit
    THEN [buf |-> b1, out |-> <<>>]
    ELSE [buf |-> [b1 EXCEPT !.tail = Append(@, line)], out |-> <<>>]

\* TruncatingBuffer::push: the buffer after the push and what it printed.
\* VecDeque::pop_front on an empty deque returns None and changes nothing.
BufPush(b, line) ==
    LET b1 == [b EXCEPT !.total_count = @ + 1] IN
    IF b1.max_lines = 0
    THEN [buf |-> b1, out |-> <<print_line(line)>>]
    ELSE IF Len(b1.head) < b1.head_limit
    THEN [buf |-> [b1 EXCEPT !.head = Append(@, line)], out |-> <<print_line(line)>>]
    ELSE LET t == IF Len(b1.tail) >= b1.tail_limit /\ b1.tail # <<>>
                  THEN Tail(b1.tail) ELSE b1.tail
         IN [buf |-> [b1 EXCEPT !.tail = Append(t, line)], out |-> <<>>]

\* usize::saturating_sub
SaturatingSub(a, b) == IF a >= b THEN a - b ELSE 0

\* mutant: the withheld ring is flushed only when lines were truncated
BufFinishNoFlush(b) ==
    IF b.max_lines = 0 THEN <<>>
    ELSE LET skipped == SaturatingSub(b.total_count, Len(b.head) + Len(b.tail)) IN
         IF skipped > 0 THEN MarkerBlock(skipped) \o PrintAll(b.tail)
         ELSE <<>>

\* TruncatingBuffer::finish: what it prints
BufFinish(b) ==
    IF b.max_lines = 0 THEN <<>>
    ELSE LET skipped == SaturatingSub(b.total_count, Len(b.head) + Len(b.tail)) IN
         IF skipped > 0 THEN MarkerBlock(skipped) \o PrintAll(b.tail)
         ELSE IF b.total_count > Len(b.head) THEN PrintAll(b.tail)
         ELSE <<>>

\* main.rs: let limit = if no_truncate { 0 } else { max_lines }
Limit(no_truncate, max_lines) == IF no_truncate THEN 0 ELSE max_lines

(***************************************************************************)
(* client.rs: run_build, from the first read of the response loop on.      *)
(***************************************************************************)
RunInit ==
    /\ cli \in [max_lines : 0..MaxN, no_truncate : BOOLEAN]
    /\ cpc = "recv"
    /\ buf = BufNew(Limit(cli.no_truncate, cli.max_lines))
    /\ exit_code = 0
    /\ printed = <<>>
    /\ fed = <<>>
    /\ term = [kind |-> "none", code |-> 0]
    /\ finished = FALSE
    /\ exitStatus = NoExit

\* mutant: any failed build exits 1
ClientExitForced(code) == IF code # 0 THEN 1 ELSE 0

\* std::process::exit(exit_code) at the end of run_build
ClientExit(code) == code

\* lines 139-145: buffer.finish(), the failure notice, process::exit
FinishAndExit(code, why) ==
    /\ printed' = printed \o BufFinish(buf)
                    \o (IF code # 0 THEN <<PrintEvent("stderr", "failed", 0, code)>> ELSE <<>>)
    /\ finished' = TRUE
    /\ exit_code' = code
    /\ exitStatus' = <<ClientExit(code)>>
    /\ term' = why
    /\ cpc' = "exited"
    /\ UNCHANGED <<cli, buf, fed, serverVars>>

\* Response::Output => buffer.push(OutputLine { content, is_stderr })
RecvOutput ==
    /\ cpc = "recv"
    /\ Len(fed) < MaxL
    /\ \E is_stderr \in BOOLEAN :
         LET line == OutputLineAt(Len(fed) + 1, is_stderr)
             r == BufPush(buf, line) IN
         /\ buf' = r.buf
         /\ printed' = printed \o r.out
         /\ fed' = Append(fed, line)
    /\ UNCHANGED <<cli, cpc, exit_code, term, finished, exitStatus, serverVars>>

\* Response::BuildComplete => exit_code = code; break
RecvBuildComplete ==
    /\ cpc = "recv"
    /\ \E code \in ExitCodes : FinishAndExit(code, [kind |-> "complete", code |-> code])

\* Response::Error => eprintln!("Error: ..."); std::process::exit(1)
RecvError ==
    /\ cpc = "recv"
    /\ printed' = Append(printed, PrintEvent("stderr", "error", 0, 0))
    /\ exitStatus' = <<1>>
    /\ term' = [kind |-> "error", code |-> 0]
    /\ cpc' = "exited"
    /\ UNCHANGED <<cli, buf, exit_code, fed, finished, serverVars>>

\* _ => {} : a Status or Stopping response is ignored
RecvOther ==
    /\ cpc = "recv"
    /\ UNCHANGED vars

\* n == 0 => break : the connection ended before a terminal Response
RecvEof ==
    /\ cpc = "recv"
    /\ FinishAndExit(exit_code, [kind |-> "eof", code |-> 0])

\* read_line or serde_json::from_str fails: run_build returns Err, main returns
\* Err, and the process exits 1 without finish
RecvFailure ==
    /\ cpc = "recv"
    /\ exitStatus' = <<1>>
    /\ term' = [kind |-> "failure", code |-> 0]
    /\ cpc' = "exited"
    /\ UNCHANGED <<cli, buf, exit_code, printed, fed, finished, serverVars>>


(***************************************************************************)
(* protocol.rs: Request and Response.                                      *)
(***************************************************************************)
\* A String or a PathBuf is a sequence of units; BadUnit is a unit that is not
\* valid Unicode (a PathBuf may hold one, a String never does).
BadUnit == "\\xFF"
ReplacementChar == "U+FFFD"

\* Path::to_string_lossy().to_string()
ToStringLossy(path) ==
    [i \in DOMAIN path |-> IF path[i] = BadUnit THEN ReplacementChar ELSE path[i]]

\* mutant: the reply never names the script
NoInitScriptText(opt) == <<>>

\* init_script.map(|p| p.to_string_lossy().to_string())
InitScriptText(opt) == IF opt = <<>> THEN <<>> ELSE <<ToStringLossy(opt[1])>>

NoLine == [src |-> "", k |-> 0]

Response(type, line, is_stderr, code, init, script, message) ==
    [ type |-> type, line |-> line, is_stderr |-> is_stderr, exit_code |-> code,
      initialized |-> init, init_script |-> script, message |-> message ]

Output(line, is_stderr) == Response("Output", line, is_stderr, 0, FALSE, <<>>, "")
BuildComplete(code)     == Response("BuildComplete", NoLine, FALSE, code, FALSE, <<>>, "")
StatusReply(init, script) == Response("Status", NoLine, FALSE, 0, init, script, "")
Stopping                == Response("Stopping", NoLine, FALSE, 0, FALSE, <<>>, "")
Error(message)          == Response("Error", NoLine, FALSE, 0, FALSE, <<>>, message)

\* the commands clients send: empty, whitespace only, and a real one
Commands == { <<>>, <<" ", "\t">>, <<" ", "m", " ", "k">> }

\* the init script paths the server is started with
InitScripts == { <<>>, << <<"i", "n">> >>, << <<"i", BadUnit>> >> }

\* "Garbage" stands for a request line that does not parse, the empty line
\* read at end-of-stream included
Requests ==
    { [kind |-> "Build", command |-> c] : c \in Commands }
      \cup { [kind |-> k, command |-> <<>>] : k \in {"Status", "Stop", "Garbage"} }

(***************************************************************************)
(* server.rs: handle_build's helpers.                                      *)
(***************************************************************************)
IsWhitespace(ch) == ch \in {" ", "\t", "\n", "\r"}

\* str::split_whitespace().collect(): the maximal runs of non-whitespace
RECURSIVE SplitFrom(_, _, _)
SplitFrom(cmd, i, cur) ==
    IF i > Len(cmd)
    THEN IF cur = <<>> THEN <<>> ELSE <<cur>>
    ELSE IF IsWhitespace(cmd[i])
         THEN (IF cur = <<>> THEN <<>> ELSE <<cur>>) \o SplitFrom(cmd, i + 1, <<>>)
         ELSE SplitFrom(cmd, i + 1, Append(cur, cmd[i]))

split_whitespace(cmd) == SplitFrom(cmd, 1, <<>>)

\* mutant: only the empty string counts as an empty command
PartsIsEmptyNoTrim(cmd) == cmd = <<>>

\* parts.is_empty()
PartsIsEmpty(cmd) == split_whitespace(cmd) = <<>>

\* status.code().unwrap_or(-1): status is <<>> when the process has no exit
\* code (it was terminated), <<n>> otherwise
ExitCodeOf(status) == IF status = <<>> THEN -1 ELSE status[1]

\* the exit statuses of a build process
ProcStatuses == { <<0>>, <<1>>, <<>> }

(***************************************************************************)
(* Connections. conn[c] holds the client's end of connection c, the        *)
(* handle_connection task serving it and, for a build, the child process   *)
(* with its two pipes.                                                     *)
(*   st: "none" (no connect yet) | "refused" | "pending" (in the listener's*)
(*       backlog) | "reset" (in the backlog when the listener was dropped) *)
(*       | "read" (task spawned, at read_line) | "streaming" (the select!  *)
(*       loop) | "waiting" (child.wait()) | "done" (returned Ok) |         *)
(*       "failed" (returned Err) | "cancelled" (dropped with the runtime)  *)
(***************************************************************************)
Conns == 1..MaxConns

NoRequest == [kind |-> "", command |-> <<>>]

FreshConn ==
    [ st |-> "none", req |-> NoRequest, open |-> FALSE, sent |-> <<>>,
      proc |-> "none", nOut |-> 0, nErr |-> 0, wOut |-> 0, wErr |-> 0,
      pipeOut |-> <<>>, pipeErr |-> <<>>, status |-> <<>>, ioErr |-> FALSE,
      outErr |-> FALSE, errErr |-> FALSE ]

Init ==
    /\ initScript \in InitScripts
    /\ serverPc = "start"
    /\ initialized = FALSE
    /\ running = TRUE
    /\ listener = FALSE
    /\ conn = [c \in Conns |-> FreshConn]
    /\ cli = [max_lines |-> 0, no_truncate |-> FALSE]
    /\ cpc = "idle"
    /\ buf = BufNew(0)
    /\ exit_code = 0
    /\ printed = <<>>
    /\ fed = <<>>
    /\ term = [kind |-> "none", code |-> 0]
    /\ finished = FALSE
    /\ exitStatus = NoExit

\* A handler that returns Err, or is dropped with the runtime, drops its socket
\* and, in a build, the Child and the two readers: the pipes are gone and the
\* process is followed no further.
Dropped(k, how) ==
    [k EXCEPT !.st = how, !.open = FALSE, !.pipeOut = <<>>, !.pipeErr = <<>>,
              !.wOut = 0, !.wErr = 0, !.ioErr = FALSE, !.outErr = FALSE, !.errErr = FALSE,
              !.proc = IF @ = "none" THEN "none" ELSE "dropped"]

Active(c)  == conn[c].st \in {"read", "streaming", "waiting"}
Pending(c) == conn[c].st = "pending"

\* lines planned by the build processes spawned so far
RECURSIVE PlannedUpTo(_)
PlannedUpTo(c) == IF c = 0 THEN 0 ELSE conn[c].nOut + conn[c].nErr + PlannedUpTo(c - 1)
Planned == PlannedUpTo(MaxConns)

(***************************************************************************)
(* server.rs: run.                                                         *)
(***************************************************************************)
\* lines 12-22 without an init script: initialized.store(true)
StartNoScript ==
    /\ serverPc = "start" /\ initScript = <<>>
    /\ initialized' = TRUE
    /\ serverPc' = "bind"
    /\ UNCHANGED <<initScript, running, listener, conn, clientVars>>

\* line 18: run_init_script(script).await
StartScript ==
    /\ serverPc = "start" /\ initScript # <<>>
    /\ serverPc' = "init"
    /\ UNCHANGED <<initScript, initialized, running, listener, conn, clientVars>>

\* run_init_script returns Ok; line 22: initialized.store(true)
InitScriptOk ==
    /\ serverPc = "init"
    /\ initialized' = TRUE
    /\ serverPc' = "bind"
    /\ UNCHANGED <<initScript, running, listener, conn, clientVars>>

\* mutant: initialized is stored before the outcome of the script is looked at
InitScriptFailStored ==
    /\ serverPc = "init"
    /\ initialized' = TRUE
    /\ serverPc' = "initFailed"
    /\ UNCHANGED <<initScript, running, listener, conn, clientVars>>

\* run_init_script returns Err (could not start, or !status.success()): run
\* returns the error through ? and main exits
InitScriptFail ==
    /\ serverPc = "init"
    /\ serverPc' = "initFailed"
    /\ UNCHANGED <<initScript, initialized, running, listener, conn, clientVars>>

\* lines 24-31: TcpListener::bind succeeds; running = true
BindOk ==
    /\ serverPc = "bind"
    /\ listener' = TRUE
    /\ running' = TRUE
    /\ serverPc' = "check"
    /\ UNCHANGED <<initScript, initialized, conn, clientVars>>

\* TcpListener::bind fails: run returns the error
BindFail ==
    /\ serverPc = "bind"
    /\ serverPc' = "aborted"
    /\ UNCHANGED <<initScript, initialized, running, listener, conn, clientVars>>

\* line 33: while running.load() is true: go on to listener.accept().await
LoopEnter ==
    /\ serverPc = "check" /\ running
    /\ serverPc' = "accept"
    /\ UNCHANGED <<initScript, initialized, running, listener, conn, clientVars>>

\* line 33: running.load() is false: the loop ends, run returns Ok and drops
\* the listener; connections still in its backlog are reset
LoopExit ==
    /\ serverPc = "check" /\ ~running
    /\ serverPc' = "returned"
    /\ listener' = FALSE
    /\ conn' = [c \in Conns |-> IF Pending(c) THEN [conn[c] EXCEPT !.st = "reset"] ELSE conn[c]]
    /\ UNCHANGED <<initScript, initialized, running, clientVars>>

\* mutant: handle_connection is awaited in the loop instead of being spawned,
\* so accept is reached again only when the handler has returned
AcceptInline(c) ==
    /\ serverPc = "accept"
    /\ Pending(c)
    /\ \A d \in Conns : Pending(d) => c <= d
    /\ \A d \in Conns : ~Active(d)
    /\ conn' = [conn EXCEPT ![c].st = "read"]
    /\ serverPc' = "check"
    /\ UNCHANGED <<initScript, initialized, running, listener, clientVars>>

\* lines 34-52: accept() returns the oldest connection of the backlog and a
\* task running handle_connection is spawned for it
Accept(c) ==
    /\ serverPc = "accept"
    /\ Pending(c)
    /\ \A d \in Conns : Pending(d) => c <= d
    /\ conn' = [conn EXCEPT ![c].st = "read"]
    /\ serverPc' = "check"
    /\ UNCHANGED <<initScript, initialized, running, listener, clientVars>>

\* main.rs 75, 95: run returned, main returns and the runtime is dropped: every
\* task still at an await is dropped with it
MainExit ==
    /\ serverPc = "returned"
    /\ serverPc' = "exited"
    /\ conn' = [c \in Conns |-> IF Active(c) THEN Dropped(conn[c], "cancelled") ELSE conn[c]]
    /\ UNCHANGED <<initScript, initialized, running, listener, clientVars>>

(***************************************************************************)
(* The clients, as far as the server sees them.                            *)
(***************************************************************************)
\* connections are numbered in the order they are made
NextToConnect(c) ==
    /\ conn[c].st = "none"
    /\ \A d \in Conns : d < c => conn[d].st # "none"

\* TcpStream::connect and send_request while the listener is bound
ClientConnect(c) ==
    /\ NextToConnect(c)
    /\ listener
    /\ \E r \in Requests : conn' = [conn EXCEPT ![c].st = "pending", ![c].req = r, ![c].open = TRUE]
    /\ UNCHANGED <<initScript, serverPc, initialized, running, listener, clientVars>>

\* TcpStream::connect when nothing listens: connection refused
ClientRefused(c) ==
    /\ NextToConnect(c)
    /\ ~listener
    /\ conn' = [conn EXCEPT ![c].st = "refused"]
    /\ UNCHANGED <<initScript, serverPc, initialized, running, listener, clientVars>>

\* the client goes away (exits, is killed) while its connection is being served
ClientDisconnect(c) ==
    /\ Active(c)
    /\ conn[c].open
    /\ conn' = [conn EXCEPT ![c].open = FALSE]
    /\ UNCHANGED <<initScript, serverPc, initialized, running, listener, clientVars>>

(***************************************************************************)
(* server.rs: send_response, handle_connection, handle_build.              *)
(***************************************************************************)
\* send_response succeeds while the client is there; once the client is gone
\* a write may still be taken by the socket or fail
WriteOutcomes(c) == IF conn[c].open THEN {TRUE} ELSE {TRUE, FALSE}

\* send_response(...).await? as the last thing a handler does: on success the
\* response is on the connection and the handler returns Ok, else Err
Reply(c, response, ok) ==
    IF ok THEN [conn[c] EXCEPT !.sent = Append(@, response), !.st = "done", !.open = FALSE]
    ELSE Dropped(conn[c], "failed")

\* lines 88-89: read_line, serde_json::from_str fails: the handler returns Err
HandleGarbage(c) ==
    /\ conn[c].st = "read" /\ conn[c].req.kind = "Garbage"
    /\ conn' = [conn EXCEPT ![c] = Dropped(conn[c], "failed")]
    /\ UNCHANGED <<initScript, serverPc, initialized, running, listener, clientVars>>

\* lines 96-102: Request::Status
HandleStatus(c) ==
    /\ conn[c].st = "read" /\ conn[c].req.kind = "Status"
    /\ \E ok \in WriteOutcomes(c) :
         conn' = [conn EXCEPT ![c] =
                    Reply(c, StatusReply(initialized, InitScriptText(initScript)), ok)]
    /\ UNCHANGED <<initScript, serverPc, initialized, running, listener, clientVars>>

\* lines 103-107: Request::Stop: send Stopping, then running.store(false)
HandleStop(c) ==
    /\ conn[c].st = "read" /\ conn[c].req.kind = "Stop"
    /\ \E ok \in WriteOutcomes(c) :
         /\ conn' = [conn EXCEPT ![c] = Reply(c, Stopping, ok)]
         /\ running' = IF ok THEN FALSE ELSE running
    /\ UNCHANGED <<initScript, serverPc, initialized, listener, clientVars>>

\* mutant: the return after Error "Empty command" is missing
HandleBuildEmptyNoReturn(c) ==
    /\ conn[c].st = "read" /\ conn[c].req.kind = "Build"
    /\ PartsIsEmpty(conn[c].req.command)
    /\ conn' = [conn EXCEPT ![c].sent = Append(@, Error("Empty command")),
                            ![c].st = "streaming", ![c].proc = "running"]
    /\ UNCHANGED <<initScript, serverPc, initialized, running, listener, clientVars>>

\* lines 119-129: Request::Build with no parts: Error "Empty command"
HandleBuildEmpty(c) ==
    /\ conn[c].st = "read" /\ conn[c].req.kind = "Build"
    /\ PartsIsEmpty(conn[c].req.command)
    /\ \E ok \in WriteOutcomes(c) :
         conn' = [conn EXCEPT ![c] = Reply(c, Error("Empty command"), ok)]
    /\ UNCHANGED <<initScript, serverPc, initialized, running, listener, clientVars>>

\* lines 132-148: spawn() fails: Error "Failed to spawn process"
HandleBuildSpawnFail(c) ==
    /\ conn[c].st = "read" /\ conn[c].req.kind = "Build"
    /\ ~PartsIsEmpty(conn[c].req.command)
    /\ \E ok \in WriteOutcomes(c) :
         conn' = [conn EXCEPT ![c] = Reply(c, Error("Failed to spawn process"), ok)]
    /\ UNCHANGED <<initScript, serverPc, initialized, running, listener, clientVars>>

\* lines 132-155: spawn() succeeds. nOut and nErr are the lines the process
\* is going to write to each stream before it exits.
HandleBuildSpawn(c) ==
    /\ conn[c].st = "read" /\ conn[c].req.kind = "Build"
    /\ ~PartsIsEmpty(conn[c].req.command)
    /\ \E no \in 0..MaxLines, ne \in 0..MaxLines :
         /\ Planned + no + ne <= MaxLines
         /\ conn' = [conn EXCEPT ![c].st = "streaming", ![c].proc = "running",
                                 ![c].nOut = no, ![c].nErr = ne]
    /\ UNCHANGED <<initScript, serverPc, initialized, running, listener, clientVars>>

\* the write end of the stdout pipe is closed when the process has closed its
\* stdout or has exited, that of the stderr pipe when the process has exited
StdoutClosed(c) == conn[c].proc \in {"closedOut", "exited"}
StderrClosed(c) == conn[c].proc = "exited"

StdoutLine(k) == [src |-> "stdout", k |-> k]
StderrLine(k) == [src |-> "stderr", k |-> k]

\* the line is taken from its pipe (rest is what stays in the pipes); then
\* Output and on with the loop, or the ? of a failed send_response
Forward(c, response, ok, rest) ==
    IF ok THEN [conn[c] EXCEPT !.sent = Append(@, response), !.pipeOut = rest.out, !.pipeErr = rest.err]
    ELSE Dropped(conn[c], "failed")

\* lines 160-164: stdout_reader.next_line() is Ok(Some(line))
ReadStdoutLine(c) ==
    /\ conn[c].st = "streaming" /\ conn[c].pipeOut # <<>>
    /\ \E ok \in WriteOutcomes(c) :
         conn' = [conn EXCEPT ![c] =
                    Forward(c, Output(Head(conn[c].pipeOut), FALSE), ok,
                            [out |-> Tail(conn[c].pipeOut), err |-> conn[c].pipeErr])]
    /\ UNCHANGED <<initScript, serverPc, initialized, running, listener, clientVars>>

\* line 165: stdout_reader.next_line() is Ok(None) => break
ReadStdoutEof(c) ==
    /\ conn[c].st = "streaming" /\ conn[c].pipeOut = <<>> /\ StdoutClosed(c)
    /\ conn' = [conn EXCEPT ![c].st = "waiting"]
    /\ UNCHANGED <<initScript, serverPc, initialized, running, listener, clientVars>>

\* lines 166-169: stdout_reader.next_line() is Err (the line is not UTF-8;
\* its bytes are consumed) => break
ReadStdoutErr(c) ==
    /\ conn[c].st = "streaming" /\ conn[c].pipeOut # <<>>
    /\ conn' = [conn EXCEPT ![c].pipeOut = Tail(@), ![c].ioErr = TRUE, ![c].outErr = TRUE,
                            ![c].st = "waiting"]
    /\ UNCHANGED <<initScript, serverPc, initialized, running, listener, clientVars>>

\* mutant: a stderr line is forwarded with is_stderr: false
ReadStderrLineAsStdout(c) ==
    /\ conn[c].st = "streaming" /\ conn[c].pipeErr # <<>>
    /\ \E ok \in WriteOutcomes(c) :
         conn' = [conn EXCEPT ![c] =
                    Forward(c, Output(Head(conn[c].pipeErr), FALSE), ok,
                            [out |-> conn[c].pipeOut, err |-> Tail(conn[c].pipeErr)])]
    /\ UNCHANGED <<initScript, serverPc, initialized, running, listener, clientVars>>

\* lines 172-176: stderr_reader.next_line() is Ok(Some(line))
ReadStderrLine(c) ==
    /\ conn[c].st = "streaming" /\ conn[c].pipeErr # <<>>
    /\ \E ok \in WriteOutcomes(c) :
         conn' = [conn EXCEPT ![c] =
                    Forward(c, Output(Head(conn[c].pipeErr), TRUE), ok,
                            [out |-> conn[c].pipeOut, err |-> Tail(conn[c].pipeErr)])]
    /\ UNCHANGED <<initScript, serverPc, initialized, running, listener, clientVars>>

\* line 177: stderr_reader.next_line() is Ok(None) => {} : nothing changes and
\* the loop goes round again
ReadStderrEof(c) ==
    /\ conn[c].st = "streaming" /\ conn[c].pipeErr = <<>> /\ StderrClosed(c)
    /\ UNCHANGED vars

\* lines 178-180: stderr_reader.next_line() is Err: logged, the loop goes on
ReadStderrErr(c) ==
    /\ conn[c].st = "streaming" /\ conn[c].pipeErr # <<>>
    /\ conn' = [conn EXCEPT ![c].pipeErr = Tail(@), ![c].ioErr = TRUE, ![c].errErr = TRUE]
    /\ UNCHANGED <<initScript, serverPc, initialized, running, listener, clientVars>>

\* lines 187-193: child.wait() returns the exit status of the process,
\* BuildComplete is sent
FinishBuild(c) ==
    /\ conn[c].st = "waiting" /\ conn[c].proc = "exited"
    /\ \E ok \in WriteOutcomes(c), s \in ProcStatuses :
         conn' = [conn EXCEPT ![c] =
                    [Reply(c, BuildComplete(ExitCodeOf(s)), ok) EXCEPT !.status = s]]
    /\ UNCHANGED <<initScript, serverPc, initialized, running, listener, clientVars>>

(***************************************************************************)
(* The build process: it writes its lines to the two pipes, blocking on a  *)
(* full pipe, and exits once it has written everything; it may close its   *)
(* stdout before it is done with stderr. It is followed while its handler  *)
(* serves it.                                                              *)
(***************************************************************************)
ProcRuns(c) == conn[c].proc \in {"running", "closedOut"} /\ conn[c].st \in {"streaming", "waiting"}

ProcWriteOut(c) ==
    /\ ProcRuns(c)
    /\ conn[c].wOut < conn[c].nOut /\ Len(conn[c].pipeOut) < PipeCap
    /\ conn' = [conn EXCEPT ![c].wOut = @ + 1,
                            ![c].pipeOut = Append(@, StdoutLine(conn[c].wOut + 1))]
    /\ UNCHANGED <<initScript, serverPc, initialized, running, listener, clientVars>>

ProcWriteErr(c) ==
    /\ ProcRuns(c)
    /\ conn[c].wErr < conn[c].nErr /\ Len(conn[c].pipeErr) < PipeCap
    /\ conn' = [conn EXCEPT ![c].wErr = @ + 1,
                            ![c].pipeErr = Append(@, StderrLine(conn[c].wErr + 1))]
    /\ UNCHANGED <<initScript, serverPc, initialized, running, listener, clientVars>>

\* the process closes its stdout when it has written its last stdout line and
\* still has lines to write to stderr
ProcCloseOut(c) ==
    /\ ProcRuns(c)
    /\ conn[c].proc = "running"
    /\ conn[c].wOut = conn[c].nOut /\ conn[c].wErr < conn[c].nErr
    /\ conn' = [conn EXCEPT ![c].proc = "closedOut"]
    /\ UNCHANGED <<initScript, serverPc, initialized, running, listener, clientVars>>

\* the process exits: both streams are closed, what is in the pipes stays
ProcExit(c) ==
    /\ ProcRuns(c)
    /\ conn[c].wOut = conn[c].nOut /\ conn[c].wErr = conn[c].nErr
    /\ conn' = [conn EXCEPT ![c].proc = "exited"]
    /\ UNCHANGED <<initScript, serverPc, initialized, running, listener, clientVars>>

\* the steps of the server process and of the build processes
ServerStep ==
    \/ StartNoScript \/ StartScript \/ InitScriptOk \/ InitScriptFail
    \/ BindOk \/ BindFail \/ LoopEnter \/ LoopExit \/ MainExit
    \/ \E c \in Conns :
         \/ Accept(c)
         \/ HandleGarbage(c) \/ HandleStatus(c) \/ HandleStop(c)
         \/ HandleBuildEmpty(c) \/ HandleBuildSpawnFail(c) \/ HandleBuildSpawn(c)
         \/ ReadStdoutLine(c) \/ ReadStdoutEof(c) \/ ReadStdoutErr(c)
         \/ ReadStderrLine(c) \/ ReadStderrEof(c) \/ ReadStderrErr(c)
         \/ FinishBuild(c)
         \/ ProcWriteOut(c) \/ ProcWriteErr(c) \/ ProcCloseOut(c) \/ ProcExit(c)

\* the steps of the clients
ClientStep ==
    \E c \in Conns : ClientConnect(c) \/ ClientRefused(c) \/ ClientDisconnect(c)

Next == ServerStep \/ ClientStep

Spec == Init /\ [][Next]_vars

\* The runtime schedules every task that can run, select! picks among the
\* ready branches at random, and a running process makes progress; clients
\* connect and disconnect when they please.
FairSpec == Spec /\ WF_vars(ServerStep)

(***************************************************************************)
(* The run client on its own: run_build fed any stream of Responses.       *)
(***************************************************************************)
ClientInit ==
    /\ initScript = <<>>
    /\ serverPc = "start"
    /\ initialized = FALSE
    /\ running = TRUE
    /\ listener = FALSE
    /\ conn = [c \in Conns |-> FreshConn]
    /\ RunInit

ClientNext ==
    \/ RecvOutput
    \/ RecvBuildComplete
    \/ RecvError
    \/ RecvOther
    \/ RecvEof
    \/ RecvFailure

ClientSpec == ClientInit /\ [][ClientNext]_vars

(***************************************************************************)
(* What the claims speak of.                                               *)
(***************************************************************************)
\* the Output messages of one stream on connection c, in the order sent
OutputsOf(c, is_stderr) ==
    SelectSeq(conn[c].sent, LAMBDA r : r.type = "Output" /\ r.is_stderr = is_stderr)

HasResponse(c, type) == \E i \in 1..Len(conn[c].sent) : conn[c].sent[i].type = type

\* a build whose process was spawned
Spawned(c) == conn[c].proc # "none"

\* what the TruncatingBuffer itself printed: print_line and the marker
BufferOutput == SelectSeq(printed, LAMBDA e : e.kind \in {"line", "blank", "marker"})

\* lines as they appear on the terminal when printed one by one
Shown(lines) ==
    [i \in 1..Len(lines) |->
       [ stream |-> IF lines[i].is_stderr THEN "stderr" ELSE "stdout",
         kind |-> "line", content |-> lines[i].content, n |-> 0 ]]

FirstLines(lines, n) == SubSeq(lines, 1, n)
LastLines(lines, n)  == SubSeq(lines, Len(lines) - n + 1, Len(lines))

\* the marker as it appears on the terminal: the count between two blank lines
ShownMarker(omitted) ==
    << [stream |-> "stderr", kind |-> "blank", content |-> 0, n |-> 0],
       [stream |-> "stderr", kind |-> "marker", content |-> 0, n |-> omitted],
       [stream |-> "stderr", kind |-> "blank", content |-> 0, n |-> 0] >>

\* the client that connects last has not connected
LastClientAway == conn[MaxConns].st = "none"

\* a command that is empty or all whitespace
OnlyWhitespace(cmd) == \A i \in 1..Len(cmd) : cmd[i] \in {" ", "\t", "\n", "\r"}

\* initialized is false before the init step is over and true after it
InitializedWhenDue ==
    /\ serverPc \in {"start", "init"} => ~initialized
    /\ serverPc \in {"bind", "check", "accept", "returned", "exited"} => initialized

\* text is path with every unit that is not valid Unicode replaced
RendersPath(text, path) ==
    /\ Len(text) = Len(path)
    /\ \A i \in 1..Len(path) :
         text[i] = IF path[i] = "\\xFF" THEN "U+FFFD" ELSE path[i]

\* every Status reply carries initialized and the rendered init script path
StatusRepliesRenderPath ==
    \A c \in Conns : \A i \in 1..Len(conn[c].sent) :
      conn[c].sent[i].type = "Status" =>
        /\ conn[c].sent[i].initialized = initialized
        /\ Len(conn[c].sent[i].init_script) = Len(initScript)
        /\ initScript # <<>> => RendersPath(conn[c].sent[i].init_script[1], initScript[1])

\* the capacity the run client was started with
CapacityN == IF cli.no_truncate THEN 0 ELSE cli.max_lines

(***************************************************************************)
(* C1: every line a spawned build process writes to stdout and to stderr   *)
(* is forwarded as an Output; the end of one stream does not stop the      *)
(* draining of the other. Stated on the finished build: once BuildComplete *)
(* is on the connection (and no read failed), the Outputs of each stream   *)
(* are exactly the lines the process wrote to it.                          *)
(***************************************************************************)
C1_AllLinesForwarded ==
    \A c \in Conns :
      (HasResponse(c, "BuildComplete") /\ ~conn[c].ioErr) =>
        /\ OutputsOf(c, FALSE) = [i \in 1..conn[c].nOut |-> Output(StdoutLine(i), FALSE)]
        /\ OutputsOf(c, TRUE)  = [i \in 1..conn[c].nErr |-> Output(StderrLine(i), TRUE)]

(***************************************************************************)
(* C2: once a Stop handler has set running = false the server leaves the   *)
(* accept loop, whether or not another client connects.                    *)
(* Under FairSpec a client that connects after the Stop is accepted and    *)
(* the loop then ends, so the claim is about the runs in which a client    *)
(* that could still connect never does: LastClient is such a client.       *)
(***************************************************************************)
C2_StopLeadsToLoopExit ==
    (~running /\ LastClientAway) ~> (serverPc \in {"returned", "exited"} \/ ~LastClientAway)

(***************************************************************************)
(* C3: the responses on a connection form one logical response sequence:   *)
(* a single Status, Stopping or Error, or Outputs followed by one          *)
(* BuildComplete; nothing follows a BuildComplete or an Error, a build has *)
(* never both, and a handler that returns Ok has sent the terminal         *)
(* response of its request.                                                *)
(***************************************************************************)
C3_OneResponseSequence ==
    \A c \in Conns :
      LET sent == conn[c].sent
          kind == conn[c].req.kind
          n    == Len(sent)
      IN /\ \A i \in 1..n - 1 : sent[i].type = "Output"
         /\ \A i \in 1..n : sent[i].type \in {"Status", "Stopping", "Error"} => n = 1
         /\ ~(HasResponse(c, "Error") /\ HasResponse(c, "BuildComplete"))
         /\ kind = "Status"  => \A i \in 1..n : sent[i].type = "Status"
         /\ kind = "Stop"    => \A i \in 1..n : sent[i].type = "Stopping"
         /\ kind = "Build"   => \A i \in 1..n : sent[i].type \in {"Output", "BuildComplete", "Error"}
         /\ kind \in {"Garbage", ""} => n = 0
         /\ conn[c].st = "done" => /\ n >= 1
                                   /\ sent[n].type # "Output"

C3_Witness ==
    \E c \in Conns :
      /\ conn[c].st = "done"
      /\ Len(conn[c].sent) = 3
      /\ conn[c].sent[3].type = "BuildComplete"

(***************************************************************************)
(* C4: BuildComplete is sent only when stdout and stderr have both reached *)
(* end-of-stream and the process has exited, and it is the last message.   *)
(***************************************************************************)
C4_CompleteAfterDrained ==
    \A c \in Conns :
      (HasResponse(c, "BuildComplete") /\ ~conn[c].ioErr) =>
        /\ conn[c].pipeOut = <<>>
        /\ conn[c].pipeErr = <<>>
        /\ conn[c].proc = "exited"
        /\ conn[c].sent[Len(conn[c].sent)].type = "BuildComplete"

(***************************************************************************)
(* C5, as claimed: with capacity N > 0 and L > N lines, what is printed is *)
(* the first ceil(N/2) lines, one marker stating L - N, then the last      *)
(* floor(N/2) lines.                                                       *)
(***************************************************************************)
C5_HeadCeilTailFloor ==
    (finished /\ CapacityN > 0 /\ Len(fed) > CapacityN) =>
      BufferOutput = Shown(FirstLines(fed, (CapacityN + 1) \div 2))
                       \o ShownMarker(Len(fed) - CapacityN)
                       \o Shown(LastLines(fed, CapacityN \div 2))

(***************************************************************************)
(* C5, amended: with capacity N > 0 and L > N lines, what is printed is    *)
(* the first floor(N/2) lines, one marker stating L - N, then the last     *)
(* ceil(N/2) lines in their original order.                                *)
(***************************************************************************)
C5_HeadFloorTailCeil ==
    (finished /\ CapacityN > 0 /\ Len(fed) > CapacityN) =>
      BufferOutput = Shown(FirstLines(fed, CapacityN \div 2))
                       \o ShownMarker(Len(fed) - CapacityN)
                       \o Shown(LastLines(fed, CapacityN - (CapacityN \div 2)))

C5_Witness == finished /\ CapacityN = 3 /\ Len(fed) = 6

(***************************************************************************)
(* C6: with capacity N > 0 and L <= N lines, finalize leaves every line    *)
(* printed exactly once, in arrival order, and no marker.                  *)
(***************************************************************************)
C6_AllPrintedInOrder ==
    (finished /\ CapacityN > 0 /\ Len(fed) <= CapacityN) => BufferOutput = Shown(fed)

C6_Witness == finished /\ CapacityN = 1 /\ Len(fed) = 1

(***************************************************************************)
(* C7: with capacity 0 (--max-lines 0 or --no-truncate) every line is      *)
(* printed when it is pushed, nothing is buffered, and finalize prints     *)
(* nothing.                                                                *)
(***************************************************************************)
C7_NoTruncation ==
    (cpc # "idle" /\ (cli.no_truncate \/ cli.max_lines = 0)) =>
      /\ BufferOutput = Shown(fed)
      /\ buf.head = <<>>
      /\ buf.tail = <<>>

C7_Witness == finished /\ cli.no_truncate /\ cli.max_lines = 2 /\ Len(fed) = 4

(***************************************************************************)
(* C8: a Build whose command is empty or only whitespace spawns no         *)
(* process and is answered by Error "Empty command" alone: no Output, no   *)
(* BuildComplete.                                                          *)
(***************************************************************************)
C8_EmptyCommand ==
    \A c \in Conns :
      (conn[c].req.kind = "Build" /\ OnlyWhitespace(conn[c].req.command)) =>
        /\ ~Spawned(c)
        /\ conn[c].sent \in {<<>>, <<Error("Empty command")>>}
        /\ conn[c].st = "done" => conn[c].sent = <<Error("Empty command")>>
        /\ ~Active(c) \/ conn[c].st = "read"

C8_Witness ==
    \E c \in Conns :
      /\ conn[c].st = "done"
      /\ conn[c].req = [kind |-> "Build", command |-> <<" ", "\t">>]

(***************************************************************************)
(* C9: the run client exits with exactly the exit_code of the              *)
(* BuildComplete it received, after finalizing the buffer, and with 1      *)
(* after an Error response.                                                *)
(***************************************************************************)
C9_ExitCode ==
    /\ term.kind = "complete" => (finished /\ exitStatus = <<term.code>>)
    /\ term.kind = "error" => exitStatus = <<1>>

C9_Witness == term.kind = "complete" /\ term.code = -1 /\ cpc = "exited"

(***************************************************************************)
(* C10, as claimed: initialized is false until the init script has         *)
(* finished successfully and true ever after, and every Status reply       *)
(* carries the value of initialized and an init_script equal to the        *)
(* configured path (absent when there is none).                            *)
(***************************************************************************)
C10_StatusCarriesPath ==
    /\ InitializedWhenDue
    /\ \A c \in Conns : \A i \in 1..Len(conn[c].sent) :
         conn[c].sent[i].type = "Status" =>
           /\ conn[c].sent[i].initialized = initialized
           /\ conn[c].sent[i].init_script = initScript

(***************************************************************************)
(* C10, amended: as claimed, but init_script is the configured path        *)
(* rendered as text: equal to the path unit for unit, except that every    *)
(* unit that is not valid Unicode is replaced by U+FFFD; and initialized   *)
(* never goes from true back to false.                                     *)
(***************************************************************************)
C10_StatusRendersPath ==
    /\ [](InitializedWhenDue /\ StatusRepliesRenderPath)
    /\ [][initialized => initialized']_vars

C10_Witness ==
    \E c \in Conns :
      /\ conn[c].st = "done" /\ conn[c].req.kind = "Status"
      /\ initScript = << <<"i", "n">> >>

(***************************************************************************)
(* C11: when the configured init script fails to start or exits nonzero,   *)
(* startup aborts: initialized is never set, the listener is never bound,  *)
(* no connection is ever accepted (a client that tries is refused), and    *)
(* the server stays that way.                                              *)
(***************************************************************************)
C11_InitFailureAborts ==
    /\ [](serverPc = "initFailed" =>
            /\ initScript # <<>>
            /\ ~initialized
            /\ ~listener
            /\ \A c \in Conns : conn[c].st \in {"none", "refused"})
    /\ [][serverPc = "initFailed" => serverPc' = "initFailed"]_vars

C11_Witness ==
    /\ serverPc = "initFailed"
    /\ \E c \in Conns : conn[c].st = "refused"

(***************************************************************************)
(* C12: a handler that has read a Stop request has set running = false by  *)
(* the time it finishes, whether its write of Stopping succeeded (it       *)
(* returned Ok) or failed (it returned Err).                               *)
(***************************************************************************)
C12_StopSetsRunningFalse ==
    \A c \in Conns :
      (conn[c].req.kind = "Stop" /\ conn[c].st \in {"done", "failed"}) => ~running

(***************************************************************************)
(* C13: within one build every Output carries the tag of the stream its    *)
(* line was read from, and the Outputs of one stream are in the order in   *)
(* which the process wrote the lines to that stream, however the two       *)
(* streams interleave; as long as no read has failed they are the first    *)
(* lines of the stream with none left out.                                 *)
(***************************************************************************)
C13_PerStreamOrder ==
    \A c \in Conns :
      LET sent == conn[c].sent IN
      /\ \A i \in 1..Len(sent) :
           sent[i].type = "Output" =>
             /\ sent[i].is_stderr = (sent[i].line.src = "stderr")
             /\ \A j \in i + 1..Len(sent) :
                  (sent[j].type = "Output" /\ sent[j].is_stderr = sent[i].is_stderr)
                    => sent[i].line.k < sent[j].line.k
      /\ (conn[c].st \in {"streaming", "waiting", "done"} /\ ~conn[c].ioErr) =>
           \A is_stderr \in BOOLEAN :
             \A i \in 1..Len(OutputsOf(c, is_stderr)) : OutputsOf(c, is_stderr)[i].line.k = i

\* the Outputs of the two streams interleave on one connection
C13_Witness ==
    \E c \in Conns :
      /\ Len(conn[c].sent) >= 3
      /\ conn[c].sent[1] = Output(StdoutLine(1), FALSE)
      /\ conn[c].sent[2] = Output(StderrLine(1), TRUE)
      /\ conn[c].sent[3] = Output(StdoutLine(2), FALSE)

(***************************************************************************)
(* C14: a connection is accepted and handed to a handler only while        *)
(* running is true: no step takes a connection from the backlog to a       *)
(* handler once a Stop handler has set running = false.                    *)
(***************************************************************************)
C14_AcceptOnlyWhileRunning ==
    [][\A c \in Conns : (conn[c].st = "pending" /\ conn'[c].st = "read") => running]_vars

(***************************************************************************)
(* C15: server shutdown does not cut off a build: the handler of a build   *)
(* whose process was spawned is never dropped before it has sent           *)
(* BuildComplete, also when a Stop on another connection ends the accept   *)
(* loop and run returns.                                                   *)
(***************************************************************************)
C15_ShutdownKeepsBuilds ==
    \A c \in Conns :
      (conn[c].req.kind = "Build" /\ Spawned(c)) => conn[c].st # "cancelled"

(***************************************************************************)
(* C16: connection handlers block neither each other nor the accept loop.  *)
(* Whatever the other handlers are doing (a build still streaming          *)
(* included), the accept loop waiting in accept can take the oldest        *)
(* connection of the backlog, a handler that has read a Status request can *)
(* answer it, and a handler that has read a Build request can spawn its    *)
(* process.                                                                *)
(***************************************************************************)
C16_HandlersIndependent ==
    \A c \in Conns :
      /\ (serverPc = "accept" /\ Pending(c) /\ \A d \in Conns : Pending(d) => c <= d)
           => ENABLED Accept(c)
      /\ (conn[c].st = "read" /\ conn[c].req.kind = "Status")
           => ENABLED HandleStatus(c)
      /\ (conn[c].st = "read" /\ conn[c].req.kind = "Build"
             /\ ~PartsIsEmpty(conn[c].req.command))
           => ENABLED HandleBuildSpawn(c)

\* a Status was answered while the build on the other connection, accepted
\* before it, was streaming with its process still running
C16_Witness ==
    \E c, d \in Conns :
      /\ c < d
      /\ conn[c].st = "streaming" /\ conn[c].proc = "running"
      /\ conn[d].st = "done" /\ conn[d].req.kind = "Status" /\ Len(conn[d].sent) = 1

(***************************************************************************)
(* C17: a read error on one stream stops the draining of that stream only. *)
(* Stated on the finished build: when BuildComplete is on the connection   *)
(* and reads failed on stdout only, every line written to stderr was       *)
(* forwarded; when reads failed on stderr only, every line written to      *)
(* stdout was forwarded.                                                   *)
(***************************************************************************)
C17_OtherStreamDrained ==
    \A c \in Conns :
      HasResponse(c, "BuildComplete") =>
        /\ (conn[c].outErr /\ ~conn[c].errErr) =>
             OutputsOf(c, TRUE) = [i \in 1..conn[c].nErr |-> Output(StderrLine(i), TRUE)]
        /\ (conn[c].errErr /\ ~conn[c].outErr) =>
             OutputsOf(c, FALSE) = [i \in 1..conn[c].nOut |-> Output(StdoutLine(i), FALSE)]

(***************************************************************************)
(* C18: the run client exits with code 0 only when it has received         *)
(* BuildComplete with exit_code 0; when the connection ends before any     *)
(* terminal Response it does not exit with 0.                              *)
(***************************************************************************)
C18_ZeroOnlyOnSuccess ==
    exitStatus = <<0>> => (term.kind = "complete" /\ term.code = 0)

(***************************************************************************)
(* C19: the server is never waiting for a build process to exit while that *)
(* process can do nothing but wait for room in a pipe: it has not exited,  *)
(* it still has a line to write, the pipe that line goes to is full, and   *)
(* the server, having left the streaming loop, reads the pipes no more.    *)
(***************************************************************************)
C19_NoWaitOnBlockedProcess ==
    \A c \in Conns :
      ~ /\ conn[c].st = "waiting"
        /\ ProcRuns(c)
        /\ ~ENABLED (ProcWriteOut(c) \/ ProcWriteErr(c) \/ ProcCloseOut(c) \/ ProcExit(c))

(***************************************************************************)
(* C20: with capacity N > 0, after any pushes: head holds at most          *)
(* head_limit lines and is the first min(total_count, head_limit) lines    *)
(* received; the ring holds at most tail_limit lines and is the most       *)
(* recent min(total_count - |head|, tail_limit) lines, in arrival order;   *)
(* total_count is the number of pushes; and, finalize included, no line is *)
(* printed more than once.                                                 *)
(***************************************************************************)
C20_BufferInvariant ==
    (cpc # "idle" /\ CapacityN > 0) =>
      LET nHead == IF buf.total_count < buf.head_limit THEN buf.total_count
                   ELSE buf.head_limit
          rest  == buf.total_count - Len(buf.head)
          nRing == IF rest < buf.tail_limit THEN rest ELSE buf.tail_limit
      IN /\ buf.total_count = Len(fed)
         /\ Len(buf.head) <= buf.head_limit
         /\ buf.head = FirstLines(fed, nHead)
         /\ Len(buf.tail) <= buf.tail_limit
         /\ buf.tail = LastLines(fed, nRing)
         /\ \A i, j \in 1..Len(printed) :
              (i < j /\ printed[i].kind = "line" /\ printed[j].kind = "line")
                => printed[i].content # printed[j].content

C20_Witness == finished /\ CapacityN = 4 /\ Len(fed) = 7 /\ Len(buf.tail) = 2

====
